---------------------------- MODULE Spec2Model ----------------------------
(***************************************************************************)
(* Model of the detection event pipeline of src/detector.py: the main      *)
(* loop (sampling window, detect_in_frames, the detected_since/alert_sent  *)
(* debounce, the alert dispatch of send_alert_image) and its exit path;    *)
(* of the start-up code of that file; and of compress_image and the        *)
(* /send_image endpoint of src/alert_server.py.                            *)
(*                                                                         *)
(* Time is counted in whole ticks.  A frame is identified by its position  *)
(* in the list `frames` of the current window.  Python's None is the empty *)
(* tuple and a present value x is the one-element tuple <<x>>.             *)
(***************************************************************************)
EXTENDS Integers, Sequences, FiniteSets

\* ------------------------------------------------------------------ bounds
MaxCycles == 5      \* completed loop iterations that are explored
MaxReads == 2       \* cap.read() calls in one sampling window
MaxPeriod == 2      \* ticks between the timestamps of two successive cycles
MaxThreshold == 2   \* largest DURATION_TIME_IN_SECS explored, in ticks

None == <<>>
Some(x) == <<x>>

VARIABLES
    pc,                     \* position of main(): sample, detect, decide, finally, exited
    DURATION_TIME_IN_SECS,  \* configuration, fixed at start-up
    period,                 \* ticks one loop iteration takes (sampling + sleep)
    now,                    \* the wall clock
    frames,                 \* frames captured in the current window
    frame,                  \* the loop variable `frame`: result of the last cap.read()
    target_detected,        \* first component of detect_in_frames' result
    detected_frame,         \* second component of detect_in_frames' result
    calls,                  \* detector invocations of the last detect_in_frames call
    detected_since,         \* detection_state.detected_since
    alert_sent,             \* detection_state.alert_sent
    saved,                  \* image file written by the current cycle (None: no file)
    posts,                  \* HTTP requests issued by the current cycle, in order
    hist,                   \* one record per completed cycle
    raised,                 \* exception that left the loop ("none" while running)
    released,               \* number of cap.release() calls
    TARGET_CLASS_NAME,      \* configuration, fixed at start-up
    SAMPLING_DURATION,      \* configuration, seconds
    SAMPLING_RATE_FPS,      \* configuration, frames per second
    SLEEP_DURATION,         \* configuration, seconds
    detector_built,         \* the YOLOv8 detector has been constructed
    cap_opened,             \* cv2.VideoCapture(0) has been constructed
    start_time,             \* start of the current sampling window
    attempts,               \* the cap.read() calls of the current window
    c_pc,                   \* position of compress_image: idle, loop, returned
    c_input,                \* its argument image_bytes
    max_size_kb,            \* its argument max_size_kb
    quality,                \* its local `quality`
    trail,                  \* the encodings it has produced, in order
    c_first,                \* the result of its previous call (None: no call yet)
    responses,              \* /send_image: one record per handled upload
    background,             \* /send_image: background tasks scheduled, not yet run
    photos,                 \* photos the background tasks have sent
    blackout                \* first cycle in which a window without a frame ended an
                            \* episode that had sent its alert (None: no such cycle)

loopVars == <<pc, DURATION_TIME_IN_SECS, period, now, frames, frame, target_detected,
              detected_frame, calls, detected_since, alert_sent, saved, posts, hist,
              raised, released>>
cfgVars == <<TARGET_CLASS_NAME, SAMPLING_DURATION, SAMPLING_RATE_FPS, SLEEP_DURATION>>
startVars == <<detector_built, cap_opened>>
sampVars == <<start_time, attempts>>
compVars == <<c_pc, c_input, max_size_kb, quality, trail, c_first>>
srvVars == <<responses, background, photos>>
obsVars == <<blackout>>

\* What the actions of the main loop leave alone.
offLoop == <<cfgVars, startVars, sampVars, obsVars, compVars, srvVars>>

vars == <<loopVars, cfgVars, startVars, sampVars, obsVars, compVars, srvVars>>

\* --------------------------------------------------------- configuration
DefaultTargetClassName == "dog"
ClassIds == {0, 1}
class_names == [c \in ClassIds |-> IF c = 0 THEN "person" ELSE "dog"]
Thresholds == (-1)..MaxThreshold
Periods == 1..MaxPeriod

\* ------------------------------------------------------ detector and camera
\* What detector(frame) yields for a frame: the class ids it returns, or an
\* exception.
DetectionLists == {<<>>, <<0>>, <<0, 1>>}
Frames == {[raises |-> FALSE, class_ids |-> c] : c \in DetectionLists}
            \cup {[raises |-> TRUE, class_ids |-> <<>>]}

\* cap.read(): (False, None) or (True, frame).
ReadResults == {None} \cup {Some(f) : f \in Frames}
Windows == UNION {[1..n -> ReadResults] : n \in 1..MaxReads}

\* The sampling loop: a failed read is skipped, a good one is appended.
IsGoodRead(r) == r # None
Captured(reads) ==
    LET good == SelectSeq(reads, IsGoodRead)
    IN  [i \in 1..Len(good) |-> good[i][1]]
\* `frame` after the window: the value assigned by the last cap.read().
LastRead(reads) ==
    IF reads[Len(reads)] = None THEN None ELSE Some(Len(Captured(reads)))

\* --------------------------------------------------------- detect_in_frames
\* The inner loop over zip(class_ids, scores): each iteration tests the names
\* of all class ids of the frame.
\* Variant: only the first class id of the frame is compared with the target.
InnerLoopMatches_FirstOnly(class_ids) ==
    /\ Len(class_ids) > 0
    /\ class_names[class_ids[1]] = TARGET_CLASS_NAME

InnerLoopMatches(class_ids) ==
    \E it \in 1..Len(class_ids) :
        TARGET_CLASS_NAME \in {class_names[class_ids[k]] : k \in 1..Len(class_ids)}

RECURSIVE detect_from(_, _)
detect_from(fs, i) ==
    IF i > Len(fs)
    THEN [raises |-> FALSE, ret |-> FALSE, frame |-> None, calls |-> Len(fs)]
    ELSE IF fs[i].raises
    THEN [raises |-> TRUE, ret |-> FALSE, frame |-> None, calls |-> i]
    ELSE IF InnerLoopMatches(fs[i].class_ids)
    THEN [raises |-> FALSE, ret |-> TRUE, frame |-> Some(i), calls |-> i]
    ELSE detect_from(fs, i + 1)

\* Variant: without a frame to look at, the previous verdict is kept.
detect_in_frames_KeepsVerdict(fs) ==
    IF fs = <<>>
    THEN [raises |-> FALSE, ret |-> target_detected, frame |-> detected_frame,
          calls |-> 0]
    ELSE detect_from(fs, 1)

\* for frame in frames: ...; return False, None
detect_in_frames(fs) == detect_from(fs, 1)

\* ----------------------------------------------------------------- dispatch
PostOutcomes == {"ok", "ConnectionError", "HTTPError", "JSONDecodeError"}

alert_message == <<"Alert", TARGET_CLASS_NAME, DURATION_TIME_IN_SECS>>

\* send_alert: one POST to API_SERVER_URL; request errors are caught.
send_alert(message, outcome) ==
    <<[url |-> "/send_alert", file |-> None, text |-> message, outcome |-> outcome]>>

\* send_alert_image: nothing is sent when the file does not exist; otherwise
\* one POST to API_IMAGE_URL, whose errors are caught.
send_alert_image(image_file, caption, outcome) ==
    IF image_file = None
    THEN <<>>
    ELSE <<[url |-> "/send_image", file |-> image_file, text |-> caption,
            outcome |-> outcome]>>

\* Variant: the text alert is sent as well, before the image.
Dispatch_TextThenImage(image_file, message, outcome) ==
    send_alert(message, outcome) \o send_alert_image(image_file, message, outcome)

\* The delivery calls of the firing branch.
Dispatch(image_file, message, outcome) ==
    send_alert_image(image_file, message, outcome)

\* The frame handed to detector.draw_detections.
RenderedFrame == frame

\* draw_detections copies its argument, so None raises.
draw_raises(f) == f = None

\* draw_detections draws the boxes the detector stored at its last call.
draw_detections(f) == [frame |-> f[1], boxes |-> calls]

\* ----------------------------------------------------------------- debounce
\* Variant: the episode is dated from before the cycle's sampling window.
StartDetectedSince_Backdated(current_time) == Some(current_time - period)

\* Variant: the start of the episode is not recorded.
StartDetectedSince_NotRecorded(current_time) == None

\* detection_state.detected_since = current_time
StartDetectedSince(current_time) == Some(current_time)

\* Variant: the alert_sent guard is dropped.
ShouldAlert_NoSentGuard(elapsed_time, sent) ==
    elapsed_time >= DURATION_TIME_IN_SECS

\* Variant: the threshold has to be exceeded, not reached.
ShouldAlert_Strict(elapsed_time, sent) ==
    elapsed_time > DURATION_TIME_IN_SECS /\ ~sent

\* Variant: the elapsed time is not compared with the threshold.
ShouldAlert_NoThreshold(elapsed_time, sent) == ~sent

ShouldAlert(elapsed_time, sent) ==
    elapsed_time >= DURATION_TIME_IN_SECS /\ ~sent

\* Variant: alert_sent is set only when a request succeeded.
AlertSentAfterDispatch_OnlyOnSuccess(requests) ==
    \E q \in 1..Len(requests) : requests[q].outcome = "ok"

\* alert_sent = True follows the dispatch unconditionally.
AlertSentAfterDispatch(requests) == TRUE

\* Variants: a reset assignment of the else branch is missing.
ResetDetectedSince_Kept == detected_since
ResetAlertSent_Kept == alert_sent

ResetDetectedSince == None
ResetAlertSent == FALSE

\* Variant: the device is released in the except clause and in finally.
cap_release_Twice(n) == n + 2

\* cap.release().
cap_release(n) == n + 1

\* time.sleep raises ValueError on a negative argument.
sleep_raises(secs) == secs < 0

\* The end of an iteration: time.sleep(SLEEP_DURATION), then the next one.
CycleSleep ==
    /\ pc' = IF sleep_raises(SLEEP_DURATION) THEN "finally" ELSE "sample"
    /\ raised' = IF sleep_raises(SLEEP_DURATION) THEN "ValueError" ELSE raised

Entry(present, fired, delivered) ==
    [present |-> present, t |-> now, fired |-> fired, delivered |-> delivered]

\* --------------------------------------------------------------------- Init
\* Defaults of the configuration.
DefaultSleepDuration == 1
DefaultSamplingDuration == 5
DefaultSamplingRateFps == 5
DefaultMaxSizeKb == 100

\* Start-up has completed: detector built, camera opened.
StartedUp ==
    /\ detector_built = TRUE
    /\ cap_opened = TRUE

\* No sampling window has begun.
SamplerIdle ==
    /\ start_time = 0
    /\ attempts = <<>>
    /\ blackout = None

\* compress_image has not been called.
CompressIdle ==
    /\ c_pc = "idle"
    /\ c_input = None
    /\ max_size_kb = DefaultMaxSizeKb
    /\ quality = 0
    /\ trail = <<>>
    /\ c_first = None

\* The server has handled no upload.
ServerIdle ==
    /\ responses = <<>>
    /\ background = <<>>
    /\ photos = 0

\* The main loop is at its first iteration, in the default configuration but
\* for the threshold.
Init ==
    /\ TARGET_CLASS_NAME = DefaultTargetClassName
    /\ SAMPLING_DURATION = DefaultSamplingDuration
    /\ SAMPLING_RATE_FPS = DefaultSamplingRateFps
    /\ SLEEP_DURATION = DefaultSleepDuration
    /\ StartedUp
    /\ SamplerIdle
    /\ CompressIdle
    /\ ServerIdle
    /\ pc = "sample"
    /\ DURATION_TIME_IN_SECS \in Thresholds
    /\ period \in Periods
    /\ now = 0
    /\ frames = <<>>
    /\ frame = None
    /\ target_detected = FALSE
    /\ detected_frame = None
    /\ calls = 0
    /\ detected_since = None
    /\ alert_sent = FALSE
    /\ saved = None
    /\ posts = <<>>
    /\ hist = <<>>
    /\ raised = "none"
    /\ released = 0

\* ------------------------------------------------------------------ actions
\* Sampling phase of one iteration.
Sample ==
    /\ pc = "sample"
    /\ Len(hist) < MaxCycles
    /\ \E reads \in Windows :
        /\ frames' = Captured(reads)
        /\ frame' = LastRead(reads)
    /\ now' = now + period
    /\ saved' = None
    /\ posts' = <<>>
    /\ pc' = "detect"
    /\ UNCHANGED <<DURATION_TIME_IN_SECS, period, target_detected, detected_frame,
                   calls, detected_since, alert_sent, hist, raised, released, offLoop>>

\* Detection phase: target_detected, detected_frame = detect_in_frames(frames).
Detect ==
    /\ pc = "detect"
    /\ LET r == detect_in_frames(frames)
       IN  /\ calls' = r.calls
           /\ IF r.raises
              THEN /\ raised' = "detector"
                   /\ pc' = "finally"
                   /\ UNCHANGED <<target_detected, detected_frame>>
              ELSE /\ target_detected' = r.ret
                   /\ detected_frame' = r.frame
                   /\ pc' = "decide"
                   /\ UNCHANGED raised
    /\ UNCHANGED <<DURATION_TIME_IN_SECS, period, now, frames, frame, detected_since,
                   alert_sent, saved, posts, hist, released, offLoop>>

\* target_detected and detected_since is None.
StartEpisode ==
    /\ pc = "decide"
    /\ target_detected
    /\ detected_since = None
    /\ detected_since' = StartDetectedSince(now)
    /\ alert_sent' = FALSE
    /\ hist' = Append(hist, Entry(TRUE, FALSE, FALSE))
    /\ CycleSleep
    /\ UNCHANGED <<DURATION_TIME_IN_SECS, period, now, frames, frame, target_detected,
                   detected_frame, calls, saved, posts, released, offLoop>>

\* target_detected, detected_since set, and the alert condition is false.
HoldEpisode ==
    /\ pc = "decide"
    /\ target_detected
    /\ detected_since # None
    /\ ~ShouldAlert(now - detected_since[1], alert_sent)
    /\ hist' = Append(hist, Entry(TRUE, FALSE, FALSE))
    /\ CycleSleep
    /\ UNCHANGED <<DURATION_TIME_IN_SECS, period, now, frames, frame, target_detected,
                   detected_frame, calls, detected_since, alert_sent, saved, posts,
                   released, offLoop>>

\* target_detected, detected_since set, and the alert condition is true:
\* render, save, send, then alert_sent = True.
FireAlert ==
    /\ pc = "decide"
    /\ target_detected
    /\ detected_since # None
    /\ ShouldAlert(now - detected_since[1], alert_sent)
    /\ IF draw_raises(RenderedFrame)
       THEN /\ raised' = "render"
            /\ pc' = "finally"
            /\ UNCHANGED <<alert_sent, saved, posts, hist>>
       ELSE \E written \in BOOLEAN, outcome \in PostOutcomes :
            LET combined_img == draw_detections(RenderedFrame)
                image_file == IF written THEN Some(combined_img) ELSE None
                requests == Dispatch(image_file, alert_message, outcome)
            IN  /\ saved' = image_file
                /\ posts' = requests
                /\ alert_sent' = AlertSentAfterDispatch(requests)
                /\ hist' = Append(hist, Entry(TRUE, TRUE,
                              \E q \in 1..Len(requests) : requests[q].outcome = "ok"))
                /\ CycleSleep
    /\ UNCHANGED <<DURATION_TIME_IN_SECS, period, now, frames, frame, target_detected,
                   detected_frame, calls, detected_since, released, offLoop>>

\* not target_detected.
EndEpisode ==
    /\ pc = "decide"
    /\ ~target_detected
    /\ detected_since' = ResetDetectedSince
    /\ alert_sent' = ResetAlertSent
    /\ hist' = Append(hist, Entry(FALSE, FALSE, FALSE))
    /\ blackout' = IF blackout = None /\ frames = <<>> /\ alert_sent
                   THEN Some(Len(hist) + 1)
                   ELSE blackout
    /\ CycleSleep
    /\ UNCHANGED <<DURATION_TIME_IN_SECS, period, now, frames, frame, target_detected,
                   detected_frame, calls, saved, posts, released, cfgVars, startVars,
                   sampVars, compVars, srvVars>>

\* The finally clause of main().
Finally ==
    /\ pc = "finally"
    /\ released' = cap_release(released)
    /\ pc' = "exited"
    /\ UNCHANGED <<DURATION_TIME_IN_SECS, period, now, frames, frame, target_detected,
                   detected_frame, calls, detected_since, alert_sent, saved, posts,
                   hist, raised, offLoop>>

Next ==
    \/ Sample
    \/ Detect
    \/ StartEpisode
    \/ HoldEpisode
    \/ FireAlert
    \/ EndEpisode
    \/ Finally

Spec == Init /\ [][Next]_vars

\* ======================================================================
\* The whole process: start-up code of detector.py, then main() with the
\* sampling window taken one cap.read() at a time.
\* ======================================================================
TicksPerSecond == 2     \* clock ticks in one second
MaxReadTicks == 1       \* longest cap.read() call, in ticks
MaxLoopCycles == 3      \* completed loop iterations explored by ProcSpec

TargetNames == {"dog", "person", "unicorn"}
SamplingDurations == {-1, 0, 1}
SamplingRates == {-1, 0, 1, TicksPerSecond}
SleepDurations == {-1, 0, 1}

Ticks(secs) == secs * TicksPerSecond

\* 1 / SAMPLING_RATE_FPS raises ZeroDivisionError for a rate of 0.
division_raises(rate) == rate = 0
\* frame_interval = 1 / SAMPLING_RATE_FPS, in ticks (negative for a negative rate).
frame_interval(rate) ==
    IF rate > 0 THEN TicksPerSecond \div rate ELSE 0 - (TicksPerSecond \div (0 - rate))

\* Variant: the membership test is missing.
ClassNameValid_Unchecked(name) == TRUE

\* TARGET_CLASS_NAME in utils.class_names.
ClassNameValid(name) == \E c \in ClassIds : class_names[c] = name

\* Variant: the window stays open while the elapsed time equals the duration.
WindowOpen_Inclusive(t) == (t - start_time) <= Ticks(SAMPLING_DURATION)

\* The condition of the sampling loop: (time.time() - start_time) < SAMPLING_DURATION.
WindowOpen(t) == (t - start_time) < Ticks(SAMPLING_DURATION)

LoopPcs == {"sample", "window", "detect", "decide"}

ProcInit ==
    /\ TARGET_CLASS_NAME \in TargetNames
    /\ SAMPLING_DURATION \in SamplingDurations
    /\ SAMPLING_RATE_FPS \in SamplingRates
    /\ SLEEP_DURATION \in SleepDurations
    /\ detector_built = FALSE
    /\ cap_opened = FALSE
    /\ SamplerIdle
    /\ CompressIdle
    /\ ServerIdle
    /\ pc = "validate"
    /\ DURATION_TIME_IN_SECS = 0
    /\ period = 1
    /\ now = 0
    /\ frames = <<>>
    /\ frame = None
    /\ target_detected = FALSE
    /\ detected_frame = None
    /\ calls = 0
    /\ detected_since = None
    /\ alert_sent = FALSE
    /\ saved = None
    /\ posts = <<>>
    /\ hist = <<>>
    /\ raised = "none"
    /\ released = 0

\* if TARGET_CLASS_NAME not in utils.class_names: raise ValueError.
ValidateClassName ==
    /\ pc = "validate"
    /\ IF ClassNameValid(TARGET_CLASS_NAME)
       THEN pc' = "build_detector" /\ UNCHANGED raised
       ELSE pc' = "aborted" /\ raised' = "ValueError"
    /\ UNCHANGED <<DURATION_TIME_IN_SECS, period, now, frames, frame, target_detected,
                   detected_frame, calls, detected_since, alert_sent, saved, posts,
                   hist, released, offLoop>>

\* detector = YOLOv8(...).
BuildDetector ==
    /\ pc = "build_detector"
    /\ detector_built' = TRUE
    /\ pc' = "open_camera"
    /\ UNCHANGED <<DURATION_TIME_IN_SECS, period, now, frames, frame, target_detected,
                   detected_frame, calls, detected_since, alert_sent, saved, posts,
                   hist, raised, released, cap_opened, cfgVars, sampVars, obsVars, compVars,
                   srvVars>>

\* cap = cv2.VideoCapture(0); IOError unless cap.isOpened(); then main().
OpenCamera ==
    /\ pc = "open_camera"
    /\ \E is_opened \in BOOLEAN :
        /\ cap_opened' = is_opened
        /\ IF is_opened
           THEN pc' = "sample" /\ UNCHANGED raised
           ELSE pc' = "aborted" /\ raised' = "IOError"
    /\ UNCHANGED <<DURATION_TIME_IN_SECS, period, now, frames, frame, target_detected,
                   detected_frame, calls, detected_since, alert_sent, saved, posts,
                   hist, released, detector_built, cfgVars, sampVars, obsVars, compVars,
                   srvVars>>

\* Head of an iteration: frames = [], start_time = time.time(),
\* frame_interval = 1 / SAMPLING_RATE_FPS.  The clock read here follows the
\* sleep that ended the previous iteration.
LoopHead ==
    /\ pc = "sample"
    /\ Len(hist) < MaxLoopCycles
    /\ frames' = <<>>
    /\ now' = now + (IF Len(hist) > 0 THEN Ticks(SLEEP_DURATION) ELSE 0)
    /\ start_time' = now'
    /\ attempts' = <<>>
    /\ saved' = None
    /\ posts' = <<>>
    /\ IF division_raises(SAMPLING_RATE_FPS)
       THEN pc' = "finally" /\ raised' = "ZeroDivisionError"
       ELSE pc' = "window" /\ UNCHANGED raised
    /\ UNCHANGED <<DURATION_TIME_IN_SECS, period, frame, target_detected,
                   detected_frame, calls, detected_since, alert_sent, hist, released,
                   cfgVars, startVars, compVars, srvVars, obsVars>>

\* One iteration of the sampling loop: cap.read(); a failed read continues,
\* a good one is appended and followed by time.sleep(frame_interval).
WindowRead ==
    /\ pc = "window"
    /\ WindowOpen(now)
    /\ \E r \in ReadResults, d \in 1..MaxReadTicks :
        /\ attempts' = Append(attempts, [t |-> now, ret |-> IsGoodRead(r)])
        /\ IF ~IsGoodRead(r)
           THEN /\ frame' = None
                /\ now' = now + d
                /\ UNCHANGED <<frames, pc, raised>>
           ELSE /\ frames' = Append(frames, r[1])
                /\ frame' = Some(Len(frames) + 1)
                /\ IF sleep_raises(frame_interval(SAMPLING_RATE_FPS))
                   THEN /\ now' = now + d
                        /\ pc' = "finally"
                        /\ raised' = "ValueError"
                   ELSE /\ now' = now + d + frame_interval(SAMPLING_RATE_FPS)
                        /\ UNCHANGED <<pc, raised>>
    /\ UNCHANGED <<DURATION_TIME_IN_SECS, period, target_detected, detected_frame,
                   calls, detected_since, alert_sent, saved, posts, hist, released,
                   start_time, cfgVars, startVars, compVars, srvVars, obsVars>>

\* The loop condition is false: on to the detection phase.
WindowEnd ==
    /\ pc = "window"
    /\ ~WindowOpen(now)
    /\ pc' = "detect"
    /\ UNCHANGED <<DURATION_TIME_IN_SECS, period, now, frames, frame, target_detected,
                   detected_frame, calls, detected_since, alert_sent, saved, posts,
                   hist, raised, released, offLoop>>

\* Ctrl-C at any point of the loop: except KeyboardInterrupt, then finally.
KeyboardInterrupt ==
    /\ pc \in LoopPcs
    /\ raised' = "KeyboardInterrupt"
    /\ pc' = "finally"
    /\ UNCHANGED <<DURATION_TIME_IN_SECS, period, now, frames, frame, target_detected,
                   detected_frame, calls, detected_since, alert_sent, saved, posts,
                   hist, released, offLoop>>

ProcNext ==
    \/ ValidateClassName
    \/ BuildDetector
    \/ OpenCamera
    \/ LoopHead
    \/ WindowRead
    \/ WindowEnd
    \/ Detect
    \/ StartEpisode
    \/ HoldEpisode
    \/ FireAlert
    \/ EndEpisode
    \/ KeyboardInterrupt
    \/ Finally

ProcSpec == ProcInit /\ [][ProcNext]_vars

\* The sampling loop keeps running while it is in its window: the thread is
\* never suspended for ever between two iterations.
ProcFairSpec == ProcSpec /\ WF_vars(WindowRead \/ WindowEnd)

\* ------------------------------------------------- observations on `hist`
Cycles == 1..Len(hist)
Last == hist[Len(hist)]

\* A maximal contiguous run of cycles with target_detected = true.
IsRun(i, j) ==
    /\ i <= j
    /\ \A k \in i..j : hist[k].present
    /\ i = 1 \/ ~hist[i - 1].present
    /\ j = Len(hist) \/ ~hist[j + 1].present
Runs == {r \in Cycles \X Cycles : IsRun(r[1], r[2])}

\* Time from the first to the last cycle of a run.
Duration(r) == hist[r[2]].t - hist[r[1]].t
FiredIn(r) == {k \in r[1]..r[2] : hist[k].fired}
Alerts == {k \in Cycles : hist[k].fired}

\* The cycles of run r, after its first, at which the time since the first
\* cycle has reached the threshold.
Crossed(r) ==
    {k \in (r[1] + 1)..r[2] : hist[k].t - hist[r[1]].t >= DURATION_TIME_IN_SECS}
FirstCrossing(r) == {k \in Crossed(r) : \A m \in Crossed(r) : k <= m}

\* The cycle that has just completed fired an alert.
JustFired == pc = "sample" /\ Len(hist) > 0 /\ Last.fired

\* ------------------------------------------------------------------ claims

\* C1: in every maximal contiguous run of cycles with target_detected = true,
\* at most one cycle dispatches an alert, however long the run lasts.
C1_AtMostOneAlertPerRun ==
    \A r \in Runs : Cardinality(FiredIn(r)) <= 1

\* C1 witness: a run that fired and then went on for two more cycles.
C1_Witness ==
    \E r \in Runs : \E k \in FiredIn(r) : r[2] >= k + 2

\* C2 as stated: the number of alerts equals the number of maximal runs whose
\* duration is at least the threshold, for every threshold.
C2_AlertsEqualLongRuns ==
    Cardinality(Alerts)
        = Cardinality({r \in Runs : Duration(r) >= DURATION_TIME_IN_SECS})

\* C2 amended: the number of alerts equals the number of maximal runs that
\* span at least two cycles and whose duration is at least the threshold; a
\* run shorter than the threshold, or of a single cycle, emits no alert.
C2_AlertsEqualLongRunsOfTwoCycles ==
    /\ Cardinality(Alerts)
        = Cardinality({r \in Runs : r[2] > r[1] /\ Duration(r) >= DURATION_TIME_IN_SECS})
    /\ \A r \in Runs :
        (Duration(r) < DURATION_TIME_IN_SECS \/ r[2] = r[1]) => FiredIn(r) = {}

\* C2 witness: a finished run shorter than the threshold beside a run that
\* reached it and fired.
C2_Witness ==
    \E r1 \in Runs, r2 \in Runs :
        /\ Duration(r1) < DURATION_TIME_IN_SECS
        /\ r1[2] < Len(hist)
        /\ Duration(r2) >= DURATION_TIME_IN_SECS
        /\ FiredIn(r2) # {}

\* The scenario of C3: period 1, threshold 2, five cycles at t, t+1, ..., t+4
\* with target_detected = true, true, true, false, true.
C3_Scenario ==
    /\ period = 1
    /\ DURATION_TIME_IN_SECS = 2
    /\ Len(hist) = 5
    /\ [k \in 1..5 |-> hist[k].present] = <<TRUE, TRUE, TRUE, FALSE, TRUE>>
    /\ \A k \in 1..5 : hist[k].t - hist[1].t = k - 1

\* C3: in that scenario exactly one alert is emitted, at the third cycle
\* (t = 2) and not at the first or second, and the run that starts at the
\* fifth cycle (t = 4) has emitted none.
C3_OneAlertAtThirdCycle ==
    C3_Scenario =>
        [k \in 1..5 |-> hist[k].fired] = <<FALSE, FALSE, TRUE, FALSE, FALSE>>

\* C3 witness: the scenario has run, with its alert at the third cycle.
C3_Witness == C3_Scenario /\ Alerts = {3}

\* C4: a cycle with target_detected = false leaves detected_since = None and
\* alert_sent = False, and a run that follows an alert fires again, at its
\* first cycle whose time since the first cycle of that new run has reached
\* the threshold (never at the new run's first cycle).
C4_ResetAndRefire ==
    /\ (Len(hist) > 0 /\ ~Last.present) => (detected_since = None /\ ~alert_sent)
    /\ \A r \in Runs :
        (\E k \in Alerts : k < r[1]) => FiredIn(r) = FirstCrossing(r)

\* C4 witness: with a positive threshold, two runs have each fired.
C4_Witness ==
    /\ DURATION_TIME_IN_SECS > 0
    /\ \E r1 \in Runs, r2 \in Runs :
        r1[2] < r2[1] /\ FiredIn(r1) # {} /\ FiredIn(r2) # {}

\* C5: alert_sent implies detected_since is set, to the timestamp of a cycle
\* since which every cycle had target_detected = true.
C5_AlertSentOnlyWithinEpisode ==
    alert_sent =>
        /\ detected_since # None
        /\ \E i \in Cycles :
            /\ hist[i].t = detected_since[1]
            /\ \A k \in i..Len(hist) : hist[k].present

\* C5 witness: alert_sent holds in a run that has lasted three cycles.
C5_Witness ==
    /\ alert_sent
    /\ Len(hist) >= 3
    /\ \A k \in (Len(hist) - 2)..Len(hist) : hist[k].present

C7_FailedDeliveryKeepsDebounce ==
    /\ (JustFired /\ ~Last.delivered) =>
        /\ Len(posts) <= 1
        /\ alert_sent
        /\ \E r \in Runs : r[2] = Len(hist) /\ detected_since = Some(hist[r[1]].t)
        /\ raised = "none"
    /\ \A r \in Runs : \A k \in FiredIn(r) :
        ~hist[k].delivered => \A m \in (k + 1)..r[2] : ~hist[m].fired

\* C7 witness: an undelivered alert followed by a further cycle of the same
\* run.
C7_Witness ==
    \E r \in Runs : \E k \in FiredIn(r) : ~hist[k].delivered /\ r[2] > k

\* A frame whose detections contain the target class.
HasTarget(f) ==
    /\ ~f.raises
    /\ \E k \in 1..Len(f.class_ids) : class_names[f.class_ids[k]] = TARGET_CLASS_NAME
TargetFrames == {i \in 1..Len(frames) : HasTarget(frames[i])}

\* C8: when detect_in_frames returns, it returns (True, f) with f the first
\* frame that has the target class, having called the detector on no later
\* frame, and it returns (False, None) exactly when no frame has the target
\* class, having called the detector on every frame.
C8_FirstMatchShortCircuit ==
    pc = "decide" =>
        /\ target_detected <=> TargetFrames # {}
        /\ target_detected =>
            /\ detected_frame # None
            /\ detected_frame[1] \in TargetFrames
            /\ \A i \in TargetFrames : detected_frame[1] <= i
            /\ calls = detected_frame[1]
        /\ ~target_detected => (detected_frame = None /\ calls = Len(frames))

\* C8 witness: a match on a frame that is not the last one of the window.
C8_Witness ==
    pc = "decide" /\ target_detected /\ calls < Len(frames)

\* C9: the image saved and sent by a firing cycle is the frame returned by
\* detect_in_frames for that cycle, annotated with that frame's detections.
C9_EvidenceFrameIsSent ==
    saved # None =>
        /\ saved[1].frame = detected_frame[1]
        /\ saved[1].boxes = detected_frame[1]

\* The detector raised on the frame of its last call in the current cycle.
DetectorFailed ==
    /\ pc # "detect"
    /\ calls \in 1..Len(frames)
    /\ frames[calls].raises

\* C10: a detector failure on a frame does not leave the loop: the cycle goes
\* on to its decision and the loop to its next cycle.
C10_DetectorFailureAbsorbed ==
    DetectorFailed => (pc \in {"decide", "sample"} /\ raised = "none")


\* C11: in the sampling phase a failed read is skipped and is not fatal, and
\* the read attempt that follows a failed one comes a full frame interval
\* (1/SAMPLING_RATE_FPS) after it, not at once.
C11_FailedReadKeepsSpacing ==
    /\ pc = "window" =>
        Len(frames) = Cardinality({k \in 1..Len(attempts) : attempts[k].ret})
    /\ \A k \in 1..(Len(attempts) - 1) :
        ~attempts[k].ret =>
            attempts[k + 1].t - attempts[k].t >= frame_interval(SAMPLING_RATE_FPS)

\* C12: a step of the sampling loop leaves for the detection phase only when
\* the elapsed time has reached SAMPLING_DURATION and reads only while it has
\* not, whatever the frames captured or the reads that failed; and a window,
\* once begun, ends: the detection phase is reached unless an exception or
\* an interrupt ended the loop first.
C12_WindowEndsOnElapsedTime ==
    /\ [][/\ (pc = "window" /\ pc' = "detect")
                => (now - start_time) >= Ticks(SAMPLING_DURATION)
          /\ (pc = "window" /\ attempts' # attempts)
                => (now - start_time) < Ticks(SAMPLING_DURATION)]_vars
    /\ (pc = "window") ~> (pc = "detect" \/ raised # "none")

\* C12 witness: a window has ended for the detection phase with every read
\* failed and no frame captured.
C12_Witness ==
    /\ pc = "detect"
    /\ Len(attempts) >= 2
    /\ frames = <<>>

\* C13: the device is never released while the loop is running, is not yet
\* released when the finally clause is entered, and has been released
\* exactly once when main() has exited, whatever ended the loop.
C13_ReleasedExactlyOnce ==
    /\ pc \in LoopPcs => (released = 0 /\ raised = "none")
    /\ pc = "finally" => (released = 0 /\ raised # "none")
    /\ pc = "exited" => released = 1

\* C13 witness: main() has exited after an interrupt in the middle of a
\* sampling window.
C13_Witness ==
    /\ pc = "exited"
    /\ raised = "KeyboardInterrupt"
    /\ released = 1
    /\ attempts # <<>>
    /\ WindowOpen(now)
    /\ calls = 0

\* An invalid numeric configuration.
InvalidNumericConfig ==
    \/ SAMPLING_RATE_FPS <= 0
    \/ SLEEP_DURATION < 0
    \/ SAMPLING_DURATION <= 0

\* C14: with an invalid numeric configuration the process fails during
\* start-up: main()'s loop is never entered and no error surfaces inside
\* a cycle.
C14_InvalidConfigFailsAtStartup ==
    InvalidNumericConfig => pc \notin (LoopPcs \cup {"finally", "exited"})

\* C15: a TARGET_CLASS_NAME outside the detector's class names aborts
\* start-up with ValueError before the detector is built, the camera is
\* opened or the loop is entered; a name among them is never refused.
C15_UnknownClassAbortsStartup ==
    /\ ~(\E c \in ClassIds : class_names[c] = TARGET_CLASS_NAME) =>
        /\ pc \in {"validate", "aborted"}
        /\ pc = "aborted" => raised = "ValueError"
        /\ ~detector_built
        /\ ~cap_opened
    /\ (\E c \in ClassIds : class_names[c] = TARGET_CLASS_NAME) =>
        /\ pc # "validate" => detector_built \/ pc = "build_detector"
        /\ ~(pc = "aborted" /\ raised = "ValueError")

\* C15 witness: start-up has aborted on an unknown class name.
C15_Witness ==
    /\ TARGET_CLASS_NAME = "unicorn"
    /\ pc = "aborted"
    /\ raised = "ValueError"

\* ============================================================ compress_image
\* src/alert_server.py runs in a process of its own: no detector loop there.
DetectorOff ==
    /\ TARGET_CLASS_NAME = DefaultTargetClassName
    /\ SAMPLING_DURATION = DefaultSamplingDuration
    /\ SAMPLING_RATE_FPS = DefaultSamplingRateFps
    /\ SLEEP_DURATION = DefaultSleepDuration
    /\ detector_built = FALSE
    /\ cap_opened = FALSE
    /\ SamplerIdle
    /\ pc = "off"
    /\ DURATION_TIME_IN_SECS = 0
    /\ period = 1
    /\ now = 0
    /\ frames = <<>>
    /\ frame = None
    /\ target_detected = FALSE
    /\ detected_frame = None
    /\ calls = 0
    /\ detected_since = None
    /\ alert_sent = FALSE
    /\ saved = None
    /\ posts = <<>>
    /\ hist = <<>>
    /\ raised = "none"
    /\ released = 0

MaxBudgetKb == 2        \* largest max_size_kb explored besides the default

StartQuality == 85      \* quality = 85
QualityFloor == 10      \* ... and quality > 10
QualityStep == 5        \* quality -= 5
KB == 1024              \* max_size_kb * 1024

Budgets == (1..MaxBudgetKb) \cup {DefaultMaxSizeKb}

\* Lengths an encoding can have, relative to a budget of kb kilobytes: well
\* under it, exactly on it, over it.
EncodedSizes(kb) == {1, kb * KB, kb * KB + 1}

\* A byte string, as far as compress_image can tell: the format Image.open
\* reports for it ("unknown": Image.open raises), its length, and the quality
\* it was saved with when it is an output of compress_image.
InputImages(kb) ==
    {[format |-> f, quality |-> None, size |-> n] :
        f \in {"JPEG", "PNG", "unknown"}, n \in EncodedSizes(kb)}

\* image.save(buffer, format="JPEG", quality=quality, optimize=True);
\* buffer.getvalue(): the encoder decides the length n.
save(q, n) == [format |-> "JPEG", quality |-> Some(q), size |-> n]

\* The local variable compressed_image.
compressed_image == trail[Len(trail)]

LoopCondition_FloorInclusive(n, kb, q) == n > kb * KB /\ q >= QualityFloor

\* while len(compressed_image) > max_size_kb * 1024 and quality > 10
LoopCondition(n, kb, q) == n > kb * KB /\ q > QualityFloor

NextQuality_ByOne(q) == q - 1

\* quality -= 5
NextQuality(q) == q - QualityStep

\* A caller is about to call compress_image(image_bytes, max_size_kb).
CompressInit ==
    /\ DetectorOff
    /\ ServerIdle
    /\ max_size_kb \in Budgets
    /\ c_input \in {Some(i) : i \in InputImages(max_size_kb)}
    /\ c_pc = "called"
    /\ quality = 0
    /\ trail = <<>>
    /\ c_first = None

\* Image.open, the conversion to RGB, and the first save at quality 85.
OpenAndEncode ==
    /\ c_pc = "called"
    /\ IF c_input[1].format = "unknown"
       THEN /\ c_pc' = "raised"
            /\ UNCHANGED <<quality, trail>>
       ELSE /\ quality' = StartQuality
            /\ \E n \in EncodedSizes(max_size_kb) :
                   trail' = <<save(StartQuality, n)>>
            /\ c_pc' = "loop"
    /\ UNCHANGED <<c_input, max_size_kb, c_first, loopVars, cfgVars, startVars,
                   sampVars, obsVars, srvVars>>

\* One iteration of the while loop.
Reduce ==
    /\ c_pc = "loop"
    /\ LoopCondition(compressed_image.size, max_size_kb, quality)
    /\ quality' = NextQuality(quality)
    /\ \E n \in EncodedSizes(max_size_kb) :
           trail' = Append(trail, save(NextQuality(quality), n))
    /\ UNCHANGED <<c_pc, c_input, max_size_kb, c_first, loopVars, cfgVars,
                   startVars, sampVars, obsVars, srvVars>>

\* The loop condition is false: return compressed_image.
Return ==
    /\ c_pc = "loop"
    /\ ~LoopCondition(compressed_image.size, max_size_kb, quality)
    /\ c_pc' = "returned"
    /\ UNCHANGED <<c_input, max_size_kb, quality, trail, c_first, loopVars,
                   cfgVars, startVars, sampVars, obsVars, srvVars>>

\* The caller passes the result to compress_image again, same budget.
Recompress ==
    /\ c_pc = "returned"
    /\ c_first = None
    /\ c_first' = Some(compressed_image)
    /\ c_input' = Some(compressed_image)
    /\ c_pc' = "called"
    /\ quality' = 0
    /\ trail' = <<>>
    /\ UNCHANGED <<max_size_kb, loopVars, cfgVars, startVars, sampVars, obsVars, srvVars>>

CompressNext ==
    \/ OpenAndEncode
    \/ Reduce
    \/ Return
    \/ Recompress

CompressSpec == CompressInit /\ [][CompressNext]_vars

\* The number of encodes the quality schedule 85, 80, ..., 10 allows.
MaxEncodes == (StartQuality - QualityFloor) \div QualityStep + 1

C17_AtMostSixteenEncodes ==
    /\ MaxEncodes = 16
    /\ Len(trail) <= MaxEncodes
    /\ (c_pc = "loop" /\ Len(trail) = MaxEncodes) =>
           ~LoopCondition(compressed_image.size, max_size_kb, quality)
    /\ c_pc = "loop" => Len(trail) = (StartQuality - quality) \div QualityStep + 1

\* A call that needed all sixteen encodes and returned.
C17_Witness ==
    /\ c_pc = "returned"
    /\ Len(trail) = MaxEncodes

\* C18: compress_image applied to one of its own results that is within the
\* budget, under the same budget, returns that result unchanged and performs
\* no quality reduction.
C18_RecompressIsNoOp ==
    (/\ c_pc = "returned"
     /\ c_first # None
     /\ c_first[1].size <= max_size_kb * KB) =>
        /\ compressed_image = c_first[1]
        /\ quality = StartQuality
        /\ Len(trail) = 1

\* =============================================================== /send_image
MaxUploads == 3         \* requests the server handles

\* A content type is the sequence of the tokens of its text, so that
\* str.startswith is a prefix test.
ImagePrefix == <<"image", "/">>

\* The Content-Type header of the uploaded part: absent (None) or present.
PartHeaders ==
    {None} \cup {Some(t) : t \in {<<"image", "/", "png">>, <<"image", "/", "jpeg">>,
                                   <<"text", "/", "plain">>, <<"image">>}}

\* file.content_type.  For a part without the header the framework hands the
\* endpoint None or the empty string, depending on its version; the
\* repository pins none.
content_type(header) ==
    IF header = None THEN {None, Some(<<>>)} ELSE {header}

\* str.startswith(prefix)
startswith(str, prefix) ==
    /\ Len(prefix) <= Len(str)
    /\ SubSeq(str, 1, Len(prefix)) = prefix

\* file.content_type.startswith("image/") on None: AttributeError, which no
\* handler catches and the framework answers with 500.
startswith_raises(ct) == ct = None

\* What the background task can come to: process_and_send_image_bytes logs
\* every exception of compress_image and bot.send_photo and returns.
TaskOutcomes == {"sent", "compress_failed", "send_failed"}

ServerInit ==
    /\ DetectorOff
    /\ CompressIdle
    /\ ServerIdle

\* Response of one request and the add_task calls it makes.
Respond(header, read_ok, status, tasks) ==
    /\ responses' = Append(responses,
                           [header |-> header, read_ok |-> read_ok, status |-> status])
    /\ background' = background \o tasks

\* async def send_image(file, caption, background_tasks)
SendImage ==
    /\ Len(responses) < MaxUploads
    /\ \E header \in PartHeaders, read_ok \in BOOLEAN :
       \E ct \in content_type(header) :
           IF startswith_raises(ct)
           THEN Respond(header, read_ok, 500, <<>>)
           ELSE IF ~startswith(ct[1], ImagePrefix)
           THEN Respond(header, read_ok, 400, <<>>)
           ELSE IF ~read_ok
           THEN Respond(header, read_ok, 500, <<>>)
           ELSE Respond(header, read_ok, 200,
                        <<[upload |-> Len(responses) + 1, state |-> "pending"]>>)
    /\ UNCHANGED <<photos, loopVars, cfgVars, startVars, sampVars, obsVars, compVars>>

\* The framework runs the oldest pending background task.
RunTask ==
    /\ \E k \in DOMAIN background :
        /\ background[k].state = "pending"
        /\ \A j \in 1..(k - 1) : background[j].state # "pending"
        /\ \E outcome \in TaskOutcomes :
            /\ background' = [background EXCEPT ![k].state = outcome]
            /\ photos' = IF outcome = "sent" THEN photos + 1 ELSE photos
    /\ UNCHANGED <<responses, loopVars, cfgVars, startVars, sampVars, obsVars, compVars>>

ServerNext ==
    \/ SendImage
    \/ RunTask

ServerSpec == ServerInit /\ [][ServerNext]_vars

\* Background tasks that were scheduled for the i-th upload.
Scheduled(i) == {k \in DOMAIN background : background[k].upload = i}

\* The part declares an image type.
IsImageUpload(r) == r.header # None /\ startswith(r.header[1], ImagePrefix)

\* C19: every upload whose content type is not an image type, a missing
\* content type included, is answered with a 4xx status and gets no
\* background task; every upload with an image content type (whose body can
\* be read) is accepted and gets exactly one background task.
C19_NonImageRejectedImageAccepted ==
    \A i \in 1..Len(responses) :
        IF IsImageUpload(responses[i])
        THEN responses[i].read_ok =>
                 /\ responses[i].status = 200
                 /\ Cardinality(Scheduled(i)) = 1
        ELSE /\ responses[i].status \in 400..499
             /\ Scheduled(i) = {}

\* ============================================== the debounce state machine
\* The state of the three-state machine a pair (detected_since, alert_sent)
\* stands for.
MachineState(since, sent) ==
    IF since = None THEN "IDLE"
    ELSE IF sent THEN "FIRED-AND-HOLDING"
    ELSE "PENDING"

\* A step that completes a cycle of the main loop.
CycleCompletes == Len(hist') = Len(hist) + 1

\* The step is the transition the machine's table prescribes for the state
\* before it, the cycle's target_detected and the cycle's timestamp; `emitted`
\* tells whether the cycle dispatched an alert.
TableTransition(emitted) ==
    LET state == MachineState(detected_since, alert_sent)
    IN  IF ~target_detected
        THEN /\ detected_since' = None
             /\ alert_sent' = FALSE
             /\ MachineState(detected_since', alert_sent') = "IDLE"
             /\ ~emitted
        ELSE IF state = "IDLE"
        THEN /\ detected_since' = Some(now)
             /\ alert_sent' = FALSE
             /\ MachineState(detected_since', alert_sent') = "PENDING"
             /\ ~emitted
        ELSE IF state = "PENDING" /\ now - detected_since[1] < DURATION_TIME_IN_SECS
        THEN /\ UNCHANGED <<detected_since, alert_sent>>
             /\ ~emitted
        ELSE IF state = "PENDING"
        THEN /\ emitted
             /\ alert_sent' = TRUE
             /\ UNCHANGED detected_since
             /\ MachineState(detected_since', alert_sent') = "FIRED-AND-HOLDING"
        ELSE /\ UNCHANGED <<detected_since, alert_sent>>
             /\ ~emitted

\* C20: under the mapping IDLE = detected_since is None, PENDING =
\* detected_since set and alert_sent False, FIRED-AND-HOLDING = alert_sent
\* True, the main loop starts in IDLE; every completed cycle changes
\* (detected_since, alert_sent) exactly as the machine's table prescribes for
\* its state, target_detected and timestamp, and dispatches an alert exactly
\* on the PENDING threshold crossing; no other step touches the pair;
\* detected_since is written only on IDLE -> PENDING and on a cycle without
\* the target; and detected_since None with alert_sent True never occurs.
C20_RefinesDebounceMachine ==
    /\ MachineState(detected_since, alert_sent) = "IDLE"
    /\ [](~(detected_since = None /\ alert_sent))
    /\ [][IF CycleCompletes
          THEN TableTransition(hist'[Len(hist')].fired)
          ELSE UNCHANGED <<detected_since, alert_sent>>]_vars
    /\ [][detected_since' # detected_since =>
              /\ CycleCompletes
              /\ \/ ~target_detected
                 \/ MachineState(detected_since, alert_sent) = "IDLE"]_vars

\* The machine went IDLE -> PENDING -> FIRED-AND-HOLDING, stayed there for a
\* cycle, fell back to IDLE and is PENDING again.
C20_Witness ==
    /\ pc = "sample"
    /\ MachineState(detected_since, alert_sent) = "PENDING"
    /\ \E k \in Cycles :
        /\ k + 3 = Len(hist)
        /\ hist[k].fired
        /\ hist[k + 1].present /\ ~hist[k + 1].fired
        /\ ~hist[k + 2].present
        /\ hist[k + 3].present

\* ------------------------------------------------- first cycle of an episode
\* C21: whatever the threshold, zero and negative values included, no alert
\* is dispatched on the first cycle of a run of cycles with target_detected =
\* true: a cycle that dispatches an alert follows a cycle with the target;
\* the elapsed time compared with the threshold is the timestamp of the
\* current cycle minus the timestamp of the run's first cycle, both taken
\* after detection, so the alert falls on the first later cycle at which that
\* difference has reached the threshold.
C21_NoAlertOnFirstPresentCycle ==
    /\ \A k \in Cycles :
           hist[k].fired => (k > 1 /\ hist[k - 1].present /\ hist[k].present)
    /\ \A r \in Runs :
           /\ r[1] \notin FiredIn(r)
           /\ FiredIn(r) = FirstCrossing(r)
    /\ detected_since # None =>
           \E r \in Runs : r[2] = Len(hist) /\ detected_since = Some(hist[r[1]].t)

\* With a negative threshold: a run of a single cycle has ended without an
\* alert, and a run fired at its second cycle.
C21_Witness ==
    /\ DURATION_TIME_IN_SECS < 0
    /\ \E r1 \in Runs, r2 \in Runs :
        /\ r1[1] = r1[2]
        /\ r1[2] < Len(hist)
        /\ FiredIn(r1) = {}
        /\ FiredIn(r2) = {r2[1] + 1}

\* --------------------------------------------------- a window without frames
\* C22: a sampling window in which every read failed leaves frames empty;
\* detect_in_frames then calls the detector on nothing and returns
\* target_detected = false, and the cycle resets detected_since and
\* alert_sent exactly as a cycle whose frames show no target.  An episode
\* that had sent its alert and is interrupted by such a window is over: the
\* run of cycles that follows is a fresh episode, which dispatches an alert
\* of its own at its first threshold crossing.
C22_EmptyWindowEndsEpisode ==
    /\ (pc = "decide" /\ frames = <<>>) =>
           (~target_detected /\ detected_frame = None /\ calls = 0)
    /\ (pc = "sample" /\ Len(hist) > 0 /\ frames = <<>>) =>
           (~Last.present /\ ~Last.fired /\ detected_since = None /\ ~alert_sent)
    /\ blackout # None =>
           /\ blackout[1] \in 2..Len(hist)
           /\ ~hist[blackout[1]].present
           /\ \E r \in Runs : r[2] = blackout[1] - 1 /\ FiredIn(r) # {}
           /\ \A r \in Runs : r[1] = blackout[1] + 1 => FiredIn(r) = FirstCrossing(r)

\* With a positive threshold: an episode sent its alert, one window without
\* a frame interrupted it, and the run right after that window has sent a
\* second alert.
C22_Witness ==
    /\ DURATION_TIME_IN_SECS > 0
    /\ blackout # None
    /\ \E r \in Runs :
        /\ r[1] = blackout[1] + 1
        /\ FiredIn(r) # {}

=============================================================================
